---- MODULE Spec2Model ----
(***************************************************************************)
(* Franck-Hertz analysis pipeline (src/script.js and its two revisions).   *)
(*                                                                         *)
(* A file is selected, read asynchronously, and its onload callback runs   *)
(* parseData -> findPeaks -> linearFit -> calculateUncertainty, stores the *)
(* record in processedData and renders it.                                 *)
(*                                                                         *)
(* Numbers.  A JavaScript number is modelled as a pair <<n, d>>: the       *)
(* rational n/d in lowest terms with d > 0, or <<0,0>> for NaN, <<1,0>>    *)
(* for +Infinity and <<-1,0>> for -Infinity.  Arithmetic is exact; the     *)
(* inputs the specifications draw are small integers and short decimals,   *)
(* for which parsing, the window scans and the fit do not turn on binary   *)
(* rounding.  The smoothed differences of part_001 can: there an exact     *)
(* zero is read as zero or as a residue of either sign.                    *)
(* Signed zero is not distinguished.                                       *)
(***************************************************************************)
EXTENDS Integers, Sequences, FiniteSets, TLC

VARIABLES
    rawData,        \* global rawData (script.js:3)
    processedData,  \* global processedData, the current-result slot (script.js:4)
    chart,          \* chart.data.datasets as last set by updateChart
    resultsShown,   \* what showResults last wrote into #results
    processShown,   \* what showCalculationProcess last wrote into #calculationProcess
    readers,        \* FileReaders whose readAsText has not yet fired onload
    nextId,         \* number of uploads selected so far
    log,            \* history: the pipeline steps executed, each tagged with its upload
    fnIn,           \* argument of the pure function under study
    fnOut,          \* its result
    fnPc            \* "idle", "ready" or "done"

vars == <<rawData, processedData, chart, resultsShown, processShown,
          readers, nextId, log, fnIn, fnOut, fnPc>>

pipeVars == <<rawData, processedData, chart, resultsShown, processShown,
              readers, nextId, log>>

fnVars == <<fnIn, fnOut, fnPc>>

----------------------------------------------------------------------------
(* JavaScript numbers *)

Abs(x) == IF x < 0 THEN -x ELSE x

Sign(x) == IF x < 0 THEN -1 ELSE IF x > 0 THEN 1 ELSE 0

RECURSIVE GCD(_, _)
GCD(a, b) == IF b = 0 THEN a ELSE GCD(b, a % b)

\* n/d in lowest terms; a zero denominator gives NaN or a signed Infinity
Norm(n, d) ==
    IF d = 0 THEN <<Sign(n), 0>>
    ELSE LET g == GCD(Abs(n), Abs(d))
             s == IF d < 0 THEN -1 ELSE 1
         IN  <<(s * n) \div g, (s * d) \div g>>

NaN == <<0, 0>>
Infinity == <<1, 0>>
Zero == <<0, 1>>
Num(k) == <<k, 1>>
Rat(n, d) == Norm(n, d)

IsNaN(x) == x = NaN
IsFinite(x) == x[2] # 0

Neg(x) == <<-x[1], x[2]>>

Add(x, y) ==
    IF IsNaN(x) \/ IsNaN(y) THEN NaN
    ELSE IF ~IsFinite(x) /\ ~IsFinite(y) THEN (IF x = y THEN x ELSE NaN)
    ELSE IF ~IsFinite(x) THEN x
    ELSE IF ~IsFinite(y) THEN y
    ELSE LET g == GCD(x[2], y[2])
         IN  Norm(x[1] * (y[2] \div g) + y[1] * (x[2] \div g),
                  (x[2] \div g) * y[2])

Sub(x, y) == Add(x, Neg(y))

Mul(x, y) ==
    IF IsNaN(x) \/ IsNaN(y) THEN NaN
    ELSE IF ~IsFinite(x) \/ ~IsFinite(y)
         THEN <<Sign(x[1]) * Sign(y[1]), 0>>
    ELSE LET g == GCD(Abs(x[1]), y[2])
             h == GCD(Abs(y[1]), x[2])
         IN  Norm((x[1] \div g) * (y[1] \div h), (x[2] \div h) * (y[2] \div g))

Div(x, y) ==
    IF IsNaN(x) \/ IsNaN(y) THEN NaN
    ELSE IF ~IsFinite(y) THEN (IF IsFinite(x) THEN Zero ELSE NaN)
    ELSE IF ~IsFinite(x) THEN (IF y[1] < 0 THEN Neg(x) ELSE x)
    ELSE IF y[1] = 0 THEN <<Sign(x[1]), 0>>
    ELSE Mul(x, Norm(y[2], y[1]))

\* x < y; every comparison with NaN is false
Lt(x, y) ==
    /\ ~IsNaN(x)
    /\ ~IsNaN(y)
    /\ x # y
    /\ IF ~IsFinite(x) THEN x[1] < 0
       ELSE IF ~IsFinite(y) THEN y[1] > 0
       ELSE LET g == GCD(x[2], y[2])
            IN  x[1] * (y[2] \div g) < y[1] * (x[2] \div g)

Gt(x, y) == Lt(y, x)
Le(x, y) == ~IsNaN(x) /\ ~IsNaN(y) /\ (x = y \/ Lt(x, y))
Ge(x, y) == Le(y, x)

\* bisection: lo * lo <= n < hi * hi
RECURSIVE ISqrtBetween(_, _, _)
ISqrtBetween(n, lo, hi) ==
    IF hi - lo <= 1 THEN lo
    ELSE LET mid == (lo + hi) \div 2
         IN  IF mid * mid <= n THEN ISqrtBetween(n, mid, hi)
             ELSE ISqrtBetween(n, lo, mid)

\* floor of the square root of a natural number
ISqrt(n) == ISqrtBetween(n, 0, IF n < 46340 THEN n + 1 ELSE 46341)

IsSquare(n) == ISqrt(n) * ISqrt(n) = n

\* Math.sqrt: NaN for NaN and for negatives; exact on squares of rationals,
\* otherwise rounded down to four (large radicands: fewer) decimal places
Sqrt(x) ==
    IF IsNaN(x) THEN NaN
    ELSE IF ~IsFinite(x) THEN (IF x[1] > 0 THEN x ELSE NaN)
    ELSE IF x[1] < 0 THEN NaN
    ELSE IF IsSquare(x[1]) /\ IsSquare(x[2]) THEN Norm(ISqrt(x[1]), ISqrt(x[2]))
    ELSE LET s == IF x[1] <= 20 THEN 10000
                  ELSE IF x[1] <= 2000 THEN 1000
                  ELSE IF x[1] <= 200000 THEN 100 ELSE 10
         IN  Norm(ISqrt((x[1] * s * s) \div x[2]), s)

----------------------------------------------------------------------------
(* Text: a string is a sequence of one-character strings *)

NL == "\n"

IsDigit(c) == c \in {"0", "1", "2", "3", "4", "5", "6", "7", "8", "9"}

\* the character class [\d.]
IsNumChar(c) == IsDigit(c) \/ c = "."

\* the character class \s
IsSpace(c) == c \in {" ", "\t", "\r"}

DigitVal(c) ==
    CASE c = "0" -> 0 [] c = "1" -> 1 [] c = "2" -> 2 [] c = "3" -> 3
      [] c = "4" -> 4 [] c = "5" -> 5 [] c = "6" -> 6 [] c = "7" -> 7
      [] c = "8" -> 8 [] c = "9" -> 9

RECURSIVE Pow10(_)
Pow10(k) == IF k = 0 THEN 1 ELSE 10 * Pow10(k - 1)

\* first index >= i of s that holds no whitespace (Len(s)+1 if none)
RECURSIVE SkipSpace(_, _)
SkipSpace(s, i) ==
    IF i <= Len(s) /\ IsSpace(s[i]) THEN SkipSpace(s, i + 1) ELSE i

\* first index >= i of s that holds no digit or point
RECURSIVE SkipNum(_, _)
SkipNum(s, i) ==
    IF i <= Len(s) /\ IsNumChar(s[i]) THEN SkipNum(s, i + 1) ELSE i

\* first index >= i of s that holds no digit
RECURSIVE SkipDigits(_, _)
SkipDigits(s, i) ==
    IF i <= Len(s) /\ IsDigit(s[i]) THEN SkipDigits(s, i + 1) ELSE i

\* the natural number written by the digits s[i..j-1]
RECURSIVE DigitsVal(_, _, _)
DigitsVal(s, i, j) ==
    IF j <= i THEN 0 ELSE 10 * DigitsVal(s, i, j - 1) + DigitVal(s[j - 1])

\* parseFloat on a string of digits and points: the longest prefix
\* digits [ "." digits ] is converted, the rest is ignored; NaN if that
\* prefix holds no digit
parseFloat(s) ==
    LET a == SkipDigits(s, 1)
        hasPoint == a <= Len(s) /\ s[a] = "."
        b == IF hasPoint THEN SkipDigits(s, a + 1) ELSE a
        nInt == a - 1
        nFrac == IF hasPoint THEN b - (a + 1) ELSE 0
    IN  IF nInt = 0 /\ nFrac = 0 THEN NaN
        ELSE Add(Num(DigitsVal(s, 1, a)),
                 Rat(DigitsVal(s, a + 1, b), Pow10(nFrac)))

\* line.match(/^\|\s*([\d.]+)\s*\|\s*([\d.]+)\s*\|/): the two captured
\* groups, or <<>> when the line does not match.  The three character
\* classes are disjoint, so the greedy scan below is the only way to match.
LineMatch(line) ==
    LET a == SkipSpace(line, 2)
        b == SkipNum(line, a)
        c == SkipSpace(line, b)
        d == SkipSpace(line, c + 1)
        e == SkipNum(line, d)
        f == SkipSpace(line, e)
    IN  IF /\ Len(line) >= 1
           /\ line[1] = "|"
           /\ b > a
           /\ c <= Len(line)
           /\ line[c] = "|"
           /\ e > d
           /\ f <= Len(line)
           /\ line[f] = "|"
        THEN <<SubSeq(line, a, b - 1), SubSeq(line, d, e - 1)>>
        ELSE <<>>

\* index of the first newline at or after i (Len(text)+1 if none)
RECURSIVE NextNL(_, _)
NextNL(text, i) ==
    IF i > Len(text) \/ text[i] = NL THEN i ELSE NextNL(text, i + 1)

\* text.split('\n'): the pieces between newlines, from index i on
RECURSIVE SplitFrom(_, _)
SplitFrom(text, i) ==
    LET j == NextNL(text, i)
    IN  IF j > Len(text) THEN <<SubSeq(text, i, Len(text))>>
        ELSE <<SubSeq(text, i, j - 1)>> \o SplitFrom(text, j + 1)

Split(text) == SplitFrom(text, 1)

\* the loop of parseData: data after lines[i..] have been visited
RECURSIVE ParseLines(_, _, _)
ParseLines(lines, i, data) ==
    IF i > Len(lines) THEN data
    ELSE LET match == LineMatch(lines[i])
         IN  IF match # <<>>
             THEN ParseLines(lines, i + 1,
                     Append(data, [voltage |-> parseFloat(match[1]),
                                   current |-> parseFloat(match[2])]))
             ELSE ParseLines(lines, i + 1, data)

\* parseData(text): threw = TRUE stands for the Error thrown on no data
parseData(text) ==
    LET data == ParseLines(Split(text), 1, <<>>)
    IN  IF Len(data) = 0
        THEN [threw |-> TRUE, data |-> <<>>]
        ELSE [threw |-> FALSE, data |-> data]

----------------------------------------------------------------------------
(* Peak detection, src/script.js: adaptive relaxed window with fallback *)

\* Math.max(...xs) over a non-empty sequence of numbers: NaN if any is NaN
RECURSIVE MaxFrom(_, _, _)
MaxFrom(xs, i, m) ==
    IF i > Len(xs) THEN m
    ELSE IF IsNaN(xs[i]) \/ IsNaN(m) THEN NaN
    ELSE MaxFrom(xs, i + 1, IF Gt(xs[i], m) THEN xs[i] ELSE m)

MathMax(xs) == MaxFrom(xs, 1, Neg(Infinity))

Currents(data) == [i \in 1..Len(data) |-> data[i].current]

Min2(a, b) == IF a < b THEN a ELSE b
Max2(a, b) == IF a > b THEN a ELSE b

\* Math.min(10, Math.max(3, Math.floor(data.length / 20)))
AdaptiveWindow(len) == Min2(10, Max2(3, len \div 20))

\* data[i] as a peak record; i is the 0-based index of the code
PeakAt(data, i) ==
    [voltage |-> data[i + 1].voltage,
     current |-> data[i + 1].current,
     peakIndex |-> i]

\* mutant: the window comparison without the 5% tolerance
RelaxedIsPeakStrict(data, w, maxCurrent, i) ==
    /\ \A j \in 1..w : ~Lt(data[i + 1].current, data[i + 1 - j].current)
    /\ \A j \in 1..w : ~Lt(data[i + 1].current, data[i + 1 + j].current)
    /\ Gt(data[i + 1].current, Mul(Rat(5, 100), maxCurrent))

\* the test of the primary pass at 0-based index i with window w
RelaxedIsPeak(data, w, maxCurrent, i) ==
    /\ \A j \in 1..w :
          ~Lt(data[i + 1].current, Mul(data[i + 1 - j].current, Rat(95, 100)))
    /\ \A j \in 1..w :
          ~Lt(data[i + 1].current, Mul(data[i + 1 + j].current, Rat(95, 100)))
    /\ Gt(data[i + 1].current, Mul(Rat(5, 100), maxCurrent))

\* the primary loop from index i on, peaks found so far in acc
RECURSIVE PrimaryFrom(_, _, _, _, _)
PrimaryFrom(data, w, maxCurrent, i, acc) ==
    IF ~(i < Len(data) - w) THEN acc
    ELSE PrimaryFrom(data, w, maxCurrent, i + 1,
            IF RelaxedIsPeak(data, w, maxCurrent, i)
            THEN Append(acc, PeakAt(data, i)) ELSE acc)

PrimaryPeaks(data) ==
    LET w == AdaptiveWindow(Len(data))
    IN  PrimaryFrom(data, w, MathMax(Currents(data)), w, <<>>)

\* the test of the fallback pass at 0-based index i
BackupIsPeak(data, maxCurrent, i) ==
    /\ Gt(data[i + 1].current, data[i].current)
    /\ Gt(data[i + 1].current, data[i + 2].current)
    /\ Gt(data[i + 1].current, Mul(Rat(3, 100), maxCurrent))

\* mutant: the fallback loop runs on to the last sample but one
RECURSIVE BackupFromWide(_, _, _, _)
BackupFromWide(data, maxCurrent, i, acc) ==
    IF ~(i < Len(data) - 1) THEN acc
    ELSE BackupFromWide(data, maxCurrent, i + 1,
            IF BackupIsPeak(data, maxCurrent, i)
            THEN Append(acc, PeakAt(data, i)) ELSE acc)

RECURSIVE BackupFrom(_, _, _, _)
BackupFrom(data, maxCurrent, i, acc) ==
    IF ~(i < Len(data) - 3) THEN acc
    ELSE BackupFrom(data, maxCurrent, i + 1,
            IF BackupIsPeak(data, maxCurrent, i)
            THEN Append(acc, PeakAt(data, i)) ELSE acc)

BackupPeaks(data) == BackupFrom(data, MathMax(Currents(data)), 3, <<>>)

\* arr.slice(0, k)
Slice0(arr, k) == SubSeq(arr, 1, Min2(k, Len(arr)))

\* mutant: no fallback pass
findPeaksNoFallback(data) == PrimaryPeaks(data)

findPeaks(data) ==
    LET peaks == PrimaryPeaks(data)
    IN  IF Len(peaks) >= 2 THEN peaks
        ELSE LET backupPeaks == BackupPeaks(data)
             IN  IF Len(backupPeaks) >= 2 THEN backupPeaks
                 ELSE Slice0(backupPeaks, 2)

----------------------------------------------------------------------------
(* Least-squares fit and its uncertainty *)

Null == [isNull |-> TRUE]

Sq(x) == Mul(x, x)

\* mutant: the rank is taken 0-based (x = i instead of x = i + 1)
RECURSIVE FitSumsZeroBased(_, _)
FitSumsZeroBased(peaks, k) ==
    IF k = 0 THEN [sumX |-> Zero, sumY |-> Zero, sumXY |-> Zero, sumX2 |-> Zero]
    ELSE LET p == FitSumsZeroBased(peaks, k - 1)
             x == Num(k - 1)
             y == peaks[k].voltage
         IN  [sumX |-> Add(p.sumX, x),
              sumY |-> Add(p.sumY, y),
              sumXY |-> Add(p.sumXY, Mul(x, y)),
              sumX2 |-> Add(p.sumX2, Mul(x, x))]

\* sums of the first loop of linearFit over peaks[1..k]; x is the rank
RECURSIVE FitSums(_, _)
FitSums(peaks, k) ==
    IF k = 0 THEN [sumX |-> Zero, sumY |-> Zero, sumXY |-> Zero, sumX2 |-> Zero]
    ELSE LET p == FitSums(peaks, k - 1)
             x == Num(k)
             y == peaks[k].voltage
         IN  [sumX |-> Add(p.sumX, x),
              sumY |-> Add(p.sumY, y),
              sumXY |-> Add(p.sumXY, Mul(x, y)),
              sumX2 |-> Add(p.sumX2, Mul(x, x))]

\* mutant: the residuals are taken against 0-based ranks
RECURSIVE SumResiduals2ZeroBased(_, _, _, _)
SumResiduals2ZeroBased(peaks, slope, intercept, k) ==
    IF k = 0 THEN Zero
    ELSE LET f == Add(Mul(slope, Num(k - 1)), intercept)
         IN  Add(SumResiduals2ZeroBased(peaks, slope, intercept, k - 1),
                 Sq(Sub(peaks[k].voltage, f)))

\* sum over peaks[1..k] of (y - (slope * x + intercept))^2
RECURSIVE SumResiduals2(_, _, _, _)
SumResiduals2(peaks, slope, intercept, k) ==
    IF k = 0 THEN Zero
    ELSE LET f == Add(Mul(slope, Num(k)), intercept)
         IN  Add(SumResiduals2(peaks, slope, intercept, k - 1),
                 Sq(Sub(peaks[k].voltage, f)))

\* sum over peaks[1..k] of (y - meanY)^2
RECURSIVE SumTot2(_, _, _)
SumTot2(peaks, meanY, k) ==
    IF k = 0 THEN Zero
    ELSE Add(SumTot2(peaks, meanY, k - 1), Sq(Sub(peaks[k].voltage, meanY)))

SlopeOf(n, t) ==
    Div(Sub(Mul(n, t.sumXY), Mul(t.sumX, t.sumY)),
        Sub(Mul(n, t.sumX2), Mul(t.sumX, t.sumX)))

InterceptOf(n, t, slope) == Div(Sub(t.sumY, Mul(slope, t.sumX)), n)

\* the body of linearFit below its guard
FitOf(peaks) ==
    LET n == Num(Len(peaks))
        t == FitSums(peaks, Len(peaks))
        slope == SlopeOf(n, t)
        intercept == InterceptOf(n, t, slope)
        meanY == Div(t.sumY, n)
        ssTot == SumTot2(peaks, meanY, Len(peaks))
        ssRes == SumResiduals2(peaks, slope, intercept, Len(peaks))
        rSquared == Sub(Num(1), Div(ssRes, ssTot))
    IN  [slope |-> slope,
         intercept |-> intercept,
         rSquared |-> rSquared,
         firstExcitationPotential |-> slope]

\* mutant: the guard of linearFit lets a single peak through
linearFitOnePeak(peaks) ==
    IF Len(peaks) < 1 THEN [threw |-> TRUE, fit |-> Null]
    ELSE [threw |-> FALSE, fit |-> FitOf(peaks)]

\* mutant: linearFit has no guard and fits whatever it is given
linearFitNoGuard(peaks) == [threw |-> FALSE, fit |-> FitOf(peaks)]

\* linearFit(peaks): threw = TRUE stands for the Error thrown on n < 2
linearFit(peaks) ==
    IF Len(peaks) < 2 THEN [threw |-> TRUE, fit |-> Null]
    ELSE [threw |-> FALSE, fit |-> FitOf(peaks)]

\* mutant: the normal quantile instead of the t quantile
tValueNormal == Rat(196, 100)

\* const tValue = 2.776
tValue == Rat(2776, 1000)

\* s = Math.sqrt(sumResiduals2 / (n - 2))
ResidualStd(sumResiduals2, n) == Sqrt(Div(sumResiduals2, Num(n - 2)))

calculateUncertainty(data, peaks, fitResult) ==
    LET n == Len(peaks)
    IN  IF n < 2 THEN Null
        ELSE LET sumResiduals2 ==
                     SumResiduals2(peaks, fitResult.slope, fitResult.intercept, n)
                 s == ResidualStd(sumResiduals2, n)
                 t == FitSums(peaks, n)
                 Sxx == Sub(t.sumX2, Div(Sq(t.sumX), Num(n)))
                 slopeError == Div(s, Sqrt(Sxx))
                 interceptError == Mul(s, Sqrt(Div(t.sumX2, Mul(Num(n), Sxx))))
             IN  [slopeError |-> slopeError,
                  interceptError |-> interceptError,
                  confidenceInterval |->
                      [lower |-> Sub(fitResult.slope, Mul(tValue, slopeError)),
                       upper |-> Add(fitResult.slope, Mul(tValue, slopeError))]]

----------------------------------------------------------------------------
(* The pipeline and its renderers *)

\* let rawData = []
EmptyArray == <<>>

\* let processedData = []: an array, which has none of the record's fields
EmptySlot == [isArray |-> TRUE, length |-> 0]

\* the rest of processData once the peaks are known: fit, then uncertainty,
\* then the assignment to processedData
ProcessFitted(data, peaks, fitResult) ==
    IF fitResult.threw
    THEN [threw |-> TRUE,
          steps |-> <<"findPeaks", "linearFit">>,
          value |-> Null]
    ELSE [threw |-> FALSE,
          steps |-> <<"findPeaks", "linearFit", "calculateUncertainty", "store">>,
          value |-> [raw |-> data,
                     peaks |-> peaks,
                     fit |-> fitResult.fit,
                     uncertainty |->
                         calculateUncertainty(data, peaks, fitResult.fit)]]

ProcessPeaks(data, peaks) == ProcessFitted(data, peaks, linearFit(peaks))

\* mutant: a later run overwrites the slot field by field and leaves the
\* fit of the run before in place
processDataKeepsFit(data) ==
    LET run == ProcessPeaks(data, findPeaks(data))
    IN  IF run.threw \/ processedData = EmptySlot THEN run
        ELSE [run EXCEPT !.value.fit = processedData.fit]

\* processData(data): the steps executed, whether linearFit threw, and the
\* record assigned to processedData when it did not
processData(data) == ProcessPeaks(data, findPeaks(data))

\* arr.map(d => ({x: d.voltage, y: d.current}))
Points(arr) == [i \in 1..Len(arr) |-> [x |-> arr[i].voltage, y |-> arr[i].current]]

\* showResults(): the values it interpolates into #results; threw stands for
\* the TypeError of reading slopeError of null
showResults(pd, shown) ==
    IF pd = EmptySlot \/ pd.fit = Null
    THEN [threw |-> FALSE, shown |-> shown]
    ELSE IF pd.uncertainty = Null
    THEN [threw |-> TRUE, shown |-> shown]
    ELSE [threw |-> FALSE,
          shown |-> [slope |-> pd.fit.slope,
                     slopeError |-> pd.uncertainty.slopeError]]

\* updateChart(): the three datasets, then showResults()
updateChart(pd, ch, shown) ==
    IF pd = EmptySlot
    THEN [threw |-> TRUE, chart |-> ch, shown |-> shown]
    ELSE LET n == Len(pd.peaks)
             line == IF pd.fit # Null
                     THEN <<[x |-> Add(Mul(pd.fit.slope, Num(1)), pd.fit.intercept),
                             y |-> Zero],
                            [x |-> Add(Mul(pd.fit.slope, Num(n)), pd.fit.intercept),
                             y |-> Zero]>>
                     ELSE ch.line
             res == showResults(pd, shown)
         IN  [threw |-> res.threw,
              chart |-> [raw |-> Points(pd.raw),
                         peaks |-> IF n > 0 THEN Points(pd.peaks) ELSE ch.peaks,
                         line |-> line],
              shown |-> res.shown]

\* showCalculationProcess(): the values it reads from processedData and the
\* ones it recomputes from them for the report
showCalculationProcess(pd, shown) ==
    IF pd = EmptySlot
    THEN [threw |-> TRUE, shown |-> shown]
    ELSE LET n == Len(pd.peaks)
             t == FitSums(pd.peaks, n)
             hasFit == pd.fit # Null
             hasUnc == pd.uncertainty # Null
             slope == SlopeOf(Num(n), t)
             sumResiduals2 ==
                 SumResiduals2(pd.peaks, pd.fit.slope, pd.fit.intercept, n)
         IN  [threw |-> FALSE,
              shown |->
                [peaks |-> pd.peaks,
                 fit |-> IF hasFit
                         THEN [slope |-> slope,
                               intercept |-> InterceptOf(Num(n), t, slope),
                               rSquared |-> pd.fit.rSquared]
                         ELSE Null,
                 uncertainty |->
                         IF hasUnc
                         THEN [sumResiduals2 |-> sumResiduals2,
                               s |-> ResidualStd(sumResiduals2, n),
                               slope |-> pd.fit.slope,
                               slopeError |-> pd.uncertainty.slopeError]
                         ELSE Null]]

Tag(id, steps) == [i \in 1..Len(steps) |-> <<id, steps[i]>>]

\* the values the globals and the page hold when the callback returns, and
\* the steps it executed: what the try block did before the first throw
Outcome(raw, pd, ch, res, proc, steps) ==
    [rawData |-> raw, processedData |-> pd, chart |-> ch,
     resultsShown |-> res, processShown |-> proc, steps |-> steps]

\* updateChart(); showCalculationProcess(); after processData returned
Render(data, run, uc, sc) ==
    IF uc.threw
    THEN Outcome(data, run.value, uc.chart, resultsShown, processShown,
                 <<"parseData">> \o run.steps \o <<"updateChart", "alert">>)
    ELSE Outcome(data, run.value, uc.chart, uc.shown,
                 IF sc.threw THEN processShown ELSE sc.shown,
                 <<"parseData">> \o run.steps \o <<"updateChart", "showResults">>
                    \o (IF sc.threw THEN <<"alert">>
                        ELSE <<"showCalculationProcess">>))

\* mutant: the renderers read the slot as it was when the callback began
ProcessRendersEarly(data, run) ==
    IF run.threw
    THEN Outcome(data, processedData, chart, resultsShown, processShown,
                 <<"parseData">> \o run.steps \o <<"alert">>)
    ELSE Render(data, run,
                updateChart(IF processedData = EmptySlot THEN run.value
                            ELSE processedData, chart, resultsShown),
                showCalculationProcess(run.value, processShown))

\* processData(rawData) and what follows it, after rawData was assigned
Process(data, run) ==
    IF run.threw
    THEN Outcome(data, processedData, chart, resultsShown, processShown,
                 <<"parseData">> \o run.steps \o <<"alert">>)
    ELSE Render(data, run,
                updateChart(run.value, chart, resultsShown),
                showCalculationProcess(run.value, processShown))

\* mutant: the samples parsed are appended to rawData, not assigned to it
ParsedAppends(parsed) ==
    IF parsed.threw
    THEN Outcome(rawData, processedData, chart, resultsShown, processShown,
                 <<"parseData", "alert">>)
    ELSE Process(rawData \o parsed.data, processData(rawData \o parsed.data))

\* rawData = parseData(e.target.result) and what follows it
Parsed(parsed) ==
    IF parsed.threw
    THEN Outcome(rawData, processedData, chart, resultsShown, processShown,
                 <<"parseData", "alert">>)
    ELSE Process(parsed.data, processData(parsed.data))

\* the body of reader.onload on the text read
onload(text) == Parsed(parseData(text))

----------------------------------------------------------------------------
(* The files a user may select *)

\* at most this many files are selected in one behaviour
MaxUploads == 2

DigitChars == <<"0", "1", "2", "3", "4", "5", "6", "7", "8", "9">>

\* the decimal digits of a natural number
RECURSIVE NumText(_)
NumText(k) ==
    IF k < 10 THEN <<DigitChars[k + 1]>>
    ELSE NumText(k \div 10) \o <<DigitChars[(k % 10) + 1]>>

\* the table row | v | c |
RowText(v, c) ==
    <<"|", " ">> \o NumText(v) \o <<" ", "|", " ">> \o NumText(c) \o <<" ", "|">>

HeaderText ==
    <<"|", " ", "U", " ", "|", " ", "I", " ", "|">>

SeparatorText ==
    <<"|", " ", "-", "-", " ", "|", " ", "-", "-", " ", "|">>

\* header, separator, then one row per sample, joined by newlines
RECURSIVE RowsText(_, _, _)
RowsText(vs, cs, i) ==
    IF i > Len(vs) THEN <<>>
    ELSE <<NL>> \o RowText(vs[i], cs[i]) \o RowsText(vs, cs, i + 1)

TableText(vs, cs) == HeaderText \o <<NL>> \o SeparatorText \o RowsText(vs, cs, 1)

Ramp(n, a, b) == [i \in 1..n |-> a + b * (i - 1)]

FileNames == {"empty", "rising", "onePeak", "twoPeaks", "threePeaks", "uneven"}

\* the text of each file: its voltage and current columns
FileText(f) ==
    CASE f = "empty" -> HeaderText \o <<NL>> \o SeparatorText \o <<NL>>
      [] f = "rising" ->
            TableText(Ramp(9, 10, 2), <<1, 2, 3, 4, 5, 6, 7, 8, 9>>)
      [] f = "onePeak" ->
            TableText(Ramp(9, 10, 2), <<1, 2, 3, 4, 9, 4, 3, 2, 1>>)
      [] f = "twoPeaks" ->
            TableText(Ramp(9, 10, 2), <<1, 1, 1, 5, 1, 5, 1, 1, 1>>)
      [] f = "threePeaks" ->
            TableText(Ramp(11, 10, 2), <<1, 1, 1, 5, 1, 6, 1, 5, 1, 1, 1>>)
      [] f = "uneven" ->
            TableText(<<0, 1, 2, 3, 4, 6, 7, 8, 9, 10, 12>>,
                      <<1, 1, 1, 7, 1, 7, 1, 1, 7, 1, 1>>)

NoFile == "none"

----------------------------------------------------------------------------
(* The upload state machine *)

InitPipe ==
    /\ rawData = EmptyArray
    /\ processedData = EmptySlot
    /\ chart = [raw |-> <<>>, peaks |-> <<>>, line |-> <<>>]
    /\ resultsShown = Null
    /\ processShown = Null
    /\ readers = {}
    /\ nextId = 0
    /\ log = <<>>

Init ==
    /\ InitPipe
    /\ fnIn = Null
    /\ fnOut = Null
    /\ fnPc = "idle"

\* the change event of #dataFile: no file selected returns at once, otherwise
\* a new FileReader starts reading the file
handleFileUpload(f) ==
    /\ nextId < MaxUploads
    /\ IF f = NoFile
       THEN UNCHANGED <<readers, nextId>>
       ELSE /\ readers' = readers \cup {[id |-> nextId + 1, file |-> f]}
            /\ nextId' = nextId + 1
    /\ UNCHANGED <<rawData, processedData, chart, resultsShown, processShown, log>>
    /\ UNCHANGED fnVars

\* a pending read completes and its onload callback runs to completion
readerOnload(r) ==
    \E out \in {onload(FileText(r.file))} :
        /\ readers' = readers \ {r}
        /\ rawData' = out.rawData
        /\ processedData' = out.processedData
        /\ chart' = out.chart
        /\ resultsShown' = out.resultsShown
        /\ processShown' = out.processShown
        /\ log' = log \o Tag(r.id, out.steps)
        /\ UNCHANGED nextId
        /\ UNCHANGED fnVars

Next ==
    \/ \E f \in FileNames \cup {NoFile} : handleFileUpload(f)
    \/ \E r \in readers : readerOnload(r)

Spec == Init /\ [][Next]_vars

----------------------------------------------------------------------------
(* Properties of the upload state machine *)

\* the readers whose onload callback runs in this step
Completing == readers \ readers'

\* the steps this step appended to the log
NewSteps == SubSeq(log', Len(log) + 1, Len(log'))

StepNames(entries) == [i \in 1..Len(entries) |-> entries[i][2]]

\* parse, peak detection and fit all succeed on this text
RunSucceeds(text) ==
    /\ ~parseData(text).threw
    /\ ~linearFit(findPeaks(parseData(text).data)).threw

\* the record one run computes from a text
RecordOf(text) ==
    LET raw == parseData(text).data
        peaks == findPeaks(raw)
        fit == linearFit(peaks).fit
    IN  [raw |-> raw, peaks |-> peaks, fit |-> fit,
         uncertainty |-> calculateUncertainty(raw, peaks, fit)]

\* the slot is still [] or all four fields come from one run on slot.raw
SlotWhole(slot) ==
    \/ slot = EmptySlot
    \/ /\ slot.peaks = findPeaks(slot.raw)
       /\ slot.fit = linearFit(slot.peaks).fit
       /\ slot.uncertainty = calculateUncertainty(slot.raw, slot.peaks, slot.fit)

\* C1: every successful run replaces processedData by the record computed
\* in that run from the text read, and whatever runs came before, the slot
\* never mixes fields of two runs
C1_SlotReplacedWhole ==
    [][ /\ \A r \in Completing :
              RunSucceeds(FileText(r.file))
                 => processedData' = RecordOf(FileText(r.file))
        /\ SlotWhole(processedData') ]_vars

\* a successful run has overwritten the slot of an earlier successful run
C1_Witness ==
    /\ processedData # EmptySlot
    /\ \E i, j \in 1..Len(log) :
          /\ log[i][1] # log[j][1]
          /\ log[i][2] = "store"
          /\ log[j][2] = "store"

\* C2 (as claimed): a failed run leaves rawData and processedData as they
\* were before the run
C2_FailedRunChangesNothing ==
    [][ \A r \in Completing :
            ~RunSucceeds(FileText(r.file))
               => /\ rawData' = rawData
                  /\ processedData' = processedData ]_vars

\* C3: linearFit throws on fewer than 2 peaks, and the run in which it
\* throws executes neither calculateUncertainty nor the store nor a
\* renderer, and leaves the slot and the page as they were
C3_FitFailureStopsRun ==
    [][ \A r \in Completing :
            LET parsed == parseData(FileText(r.file))
                peaks == findPeaks(parsed.data)
            IN  (~parsed.threw /\ Len(peaks) < 2)
                  => /\ linearFit(peaks).threw
                     /\ StepNames(NewSteps)
                           = <<"parseData", "findPeaks", "linearFit", "alert">>
                     /\ processedData' = processedData
                     /\ chart' = chart
                     /\ resultsShown' = resultsShown
                     /\ processShown' = processShown ]_vars

\* a run has ended in the alert right after linearFit
C3_Witness ==
    \E i \in 1..(Len(log) - 1) :
        /\ log[i][2] = "linearFit"
        /\ log[i + 1][2] = "alert"
        /\ log[i][1] = log[i + 1][1]

\* the step sequences one callback can leave in the log
RunShapes ==
    {<<"parseData", "alert">>,
     <<"parseData", "findPeaks", "linearFit", "alert">>,
     <<"parseData", "findPeaks", "linearFit", "calculateUncertainty", "store",
       "updateChart", "showResults", "showCalculationProcess">>}

\* the steps of upload id, in log order
RECURSIVE StepsOf(_, _)
StepsOf(id, entries) ==
    IF entries = <<>> THEN <<>>
    ELSE IF Head(entries)[1] = id
         THEN <<Head(entries)[2]>> \o StepsOf(id, Tail(entries))
         ELSE StepsOf(id, Tail(entries))

\* what the page shows was all read from the slot as it is now
PageShowsSlot ==
    processedData # EmptySlot
       => /\ chart.raw = Points(processedData.raw)
          /\ chart.peaks = Points(processedData.peaks)
          /\ resultsShown.slope = processedData.fit.slope
          /\ resultsShown.slopeError = processedData.uncertainty.slopeError
          /\ processShown.peaks = processedData.peaks
          /\ processShown.fit.rSquared = processedData.fit.rSquared

\* C4: the steps of one upload are contiguous in the log and in pipeline
\* order, also when reads overlap, and every renderer has read a slot
\* written whole by one run
C4_RunsDoNotInterleave ==
    /\ \A i, j, k \in 1..Len(log) :
          (i < j /\ j < k /\ log[i][1] = log[k][1]) => log[j][1] = log[i][1]
    /\ \A id \in 1..nextId :
          StepsOf(id, log) = <<>> \/ StepsOf(id, log) \in RunShapes
    /\ SlotWhole(processedData)
    /\ PageShowsSlot

\* the second upload was selected while the first was being read, and its
\* run has completed and rendered while the first read is still pending
C4_Witness ==
    /\ \E r \in readers : r.id = 1
    /\ \E i \in 1..Len(log) : log[i] = <<2, "showCalculationProcess">>

\* C11 (as claimed): a run that executes calculateUncertainty, and so takes
\* the square root of sumResiduals2 / (n - 2), has found at least 3 peaks,
\* and the slot never holds an uncertainty computed from exactly 2 peaks
C11_UncertaintyOnlyFrom3 ==
    [][ /\ \A r \in Completing :
              (\E k \in 1..Len(NewSteps) : NewSteps[k][2] = "calculateUncertainty")
                 => Len(findPeaks(parseData(FileText(r.file)).data)) >= 3
        /\ (processedData' # EmptySlot /\ processedData'.uncertainty # Null)
              => Len(processedData'.peaks) >= 3 ]_vars

\* C21: whenever a run has written processedData the slot holds at least 2
\* peaks, a fit and an uncertainty that are not null, and no run has ended
\* in updateChart/showResults throwing on a null uncertainty
C21_SlotHasFitAndUncertainty ==
    /\ processedData # EmptySlot
          => /\ Len(processedData.peaks) >= 2
             /\ processedData.fit # Null
             /\ processedData.uncertainty # Null
             /\ calculateUncertainty(processedData.raw, processedData.peaks,
                                     processedData.fit) # Null
    /\ \A i \in 1..Len(log) :
          log[i][2] = "updateChart"
             => /\ i < Len(log)
                /\ log[i + 1] = <<log[i][1], "showResults">>

\* the slot was written by a run on exactly 2 peaks, and another run found
\* fewer than 2 peaks and ended in linearFit throwing
C21_Witness ==
    /\ processedData # EmptySlot
    /\ Len(processedData.peaks) = 2
    /\ \E i \in 1..(Len(log) - 1) :
          /\ log[i][2] = "linearFit"
          /\ log[i + 1] = <<log[i][1], "alert">>
    /\ \E i \in 1..Len(log) : log[i][2] = "showResults"

\* a run of a file selected after upload id has already stored its result
StoredAfter(id) ==
    \E i \in 1..Len(log) : log[i][2] = "store" /\ log[i][1] > id

\* C22 (as claimed): the result of a later selection is never overwritten
\* by the run of an earlier one: when the read of an earlier file completes
\* after a later file's run has stored, rawData and processedData stay those
\* of the later file
C22_SelectionOrderWins ==
    [][ \A r \in Completing :
            (RunSucceeds(FileText(r.file)) /\ StoredAfter(r.id))
               => /\ rawData' = rawData
                  /\ processedData' = processedData ]_vars

----------------------------------------------------------------------------
(* parseData on bounded texts *)

\* a text has at most this many lines
MaxLines == 3

\* the lines a text is made of: table rows that are well formed, rows with
\* a malformed number, and lines that are no rows at all
SampleLines ==
    { <<"|", " ", "1", " ", "|", " ", "4", " ", "|">>,
      <<"|", "2", "5", "|", "1", ".", "5", "|">>,
      <<"|", " ", ".", "5", " ", "|", " ", "3", ".", " ", "|", "x">>,
      <<"|", " ", "8", " ", "|", " ", "2", " ", "|", "\r">>,
      <<"|", " ", "1", ".", "2", ".", "3", " ", "|", " ", "4", " ", "|">>,
      <<"|", " ", "7", " ", "|", " ", ".", " ", "|">>,
      <<"|", " ", "7", " ", "|", " ", "-", "1", " ", "|">>,
      HeaderText,
      SeparatorText,
      <<>>,
      <<"|", " ", "1", " ", "|", " ", "4">>,
      <<"|", " ", "1", " ", "4", " ", "|">> }

RECURSIVE SeqsUpTo(_, _)
SeqsUpTo(S, n) ==
    IF n = 0 THEN {<<>>}
    ELSE LET shorter == SeqsUpTo(S, n - 1)
         IN  shorter \cup {Append(q, x) : q \in shorter, x \in S}

\* the lines joined by newlines
RECURSIVE JoinLines(_)
JoinLines(ls) ==
    IF Len(ls) = 0 THEN <<>>
    ELSE IF Len(ls) = 1 THEN ls[1]
    ELSE ls[1] \o <<NL>> \o JoinLines(Tail(ls))

InitParse ==
    /\ InitPipe
    /\ \E ls \in SeqsUpTo(SampleLines, MaxLines) :
          fnIn = [lines |-> ls, text |-> JoinLines(ls)]
    /\ fnOut = Null
    /\ fnPc = "ready"

\* a call of parseData on the text
ParseCall ==
    /\ fnPc = "ready"
    /\ fnOut' = parseData(fnIn.text)
    /\ fnPc' = "done"
    /\ UNCHANGED fnIn
    /\ UNCHANGED pipeVars

NextParse == ParseCall

SpecParse == InitParse /\ [][NextParse]_vars

(* The table-row pattern as the specification words it: | <number> |
   <number> | with optional whitespace around the numbers, a number being
   digits with at most one decimal point. *)

StrictNumber(s) ==
    /\ Len(s) >= 1
    /\ \A i \in 1..Len(s) : IsNumChar(s[i])
    /\ Cardinality({i \in 1..Len(s) : s[i] = "."}) <= 1
    /\ \E i \in 1..Len(s) : IsDigit(s[i])

\* line[lo..hi] is a strict number at a..b with only whitespace around it
FieldAt(line, lo, hi, a, b) ==
    /\ lo <= a /\ a <= b /\ b <= hi
    /\ \A i \in lo..(a - 1) : IsSpace(line[i])
    /\ \A i \in (b + 1)..hi : IsSpace(line[i])
    /\ StrictNumber(SubSeq(line, a, b))

IsField(line, lo, hi) ==
    \E a, b \in lo..hi : FieldAt(line, lo, hi, a, b)

\* the second and third pipe of a well-formed row sit at c and f
RowAt(line, c, f) ==
    /\ Len(line) >= 1
    /\ line[1] = "|"
    /\ 1 < c /\ c < f /\ f <= Len(line)
    /\ line[c] = "|"
    /\ line[f] = "|"
    /\ IsField(line, 2, c - 1)
    /\ IsField(line, c + 1, f - 1)

WellFormedRow(line) == \E c, f \in 1..Len(line) : RowAt(line, c, f)

\* the value a strict number denotes: digit i counts 10^(p-1-i) before the
\* point at p and 1/10^(i-p) after it
RECURSIVE DecimalFrom(_, _, _)
DecimalFrom(s, p, i) ==
    IF i > Len(s) THEN Zero
    ELSE Add(DecimalFrom(s, p, i + 1),
             IF i < p THEN Num(DigitVal(s[i]) * Pow10(p - 1 - i))
             ELSE IF i > p THEN Rat(DigitVal(s[i]), Pow10(i - p))
             ELSE Zero)

DecimalValue(s) ==
    LET p == IF \E i \in 1..Len(s) : s[i] = "."
             THEN CHOOSE i \in 1..Len(s) : s[i] = "."
             ELSE Len(s) + 1
    IN  DecimalFrom(s, p, 1)

FieldValue(line, lo, hi) ==
    LET ab == CHOOSE ab \in (lo..hi) \X (lo..hi) :
                  FieldAt(line, lo, hi, ab[1], ab[2])
    IN  DecimalValue(SubSeq(line, ab[1], ab[2]))

\* the sample a well-formed row denotes
RowSample(line) ==
    LET cf == CHOOSE cf \in (1..Len(line)) \X (1..Len(line)) :
                  RowAt(line, cf[1], cf[2])
    IN  [voltage |-> FieldValue(line, 2, cf[1] - 1),
         current |-> FieldValue(line, cf[1] + 1, cf[2] - 1)]

\* the samples of the well-formed rows among ls, in line order
RECURSIVE WellFormedSamples(_)
WellFormedSamples(ls) ==
    IF ls = <<>> THEN <<>>
    ELSE (IF WellFormedRow(Head(ls)) THEN <<RowSample(Head(ls))>> ELSE <<>>)
            \o WellFormedSamples(Tail(ls))

\* C5 (as claimed): parseData throws exactly when no line of the text
\* matches the table-row pattern, and otherwise returns a non-empty sequence
C5_ThrowsIffNoRow ==
    fnPc = "done"
       => /\ fnOut.threw <=> (\A i \in 1..Len(fnIn.lines) :
                                  ~WellFormedRow(fnIn.lines[i]))
          /\ ~fnOut.threw => Len(fnOut.data) >= 1

\* C6 (as claimed): with k >= 1 well-formed rows and any other lines in
\* between, parseData returns the k samples of those rows in line order,
\* first field as voltage and second as current
C6_SamplesAreTheRows ==
    (fnPc = "done" /\ Len(WellFormedSamples(fnIn.lines)) >= 1)
       => /\ ~fnOut.threw
          /\ fnOut.data = WellFormedSamples(fnIn.lines)

\* C7 (as claimed): a line yields a sample only if both its fields are
\* decimals with at most one point and at least one digit
C7_MalformedNumberNoSample ==
    fnPc = "done"
       => /\ Len(fnOut.data) <= Len(WellFormedSamples(fnIn.lines))
          /\ \A i \in 1..Len(fnOut.data) :
                ~IsNaN(fnOut.data[i].voltage) /\ ~IsNaN(fnOut.data[i].current)

----------------------------------------------------------------------------
(* linearFit and calculateUncertainty on bounded peak sequences *)

\* a peak sequence has at most this many peaks
MaxPeaks == 4

\* peaks with the given voltages; the fit reads nothing else of a peak
PeaksOf(vs) ==
    [k \in 1..Len(vs) |-> [voltage |-> vs[k], current |-> Num(1), peakIndex |-> k]]

Intercepts == {Num(-1), Zero, Rat(1, 2), Num(3)}
Slopes == {Num(-2), Zero, Rat(1, 4), Num(1), Num(12)}

\* voltages a + b * rank for rank = 1..n
LineVoltages(a, b, n) == [k \in 1..n |-> Add(a, Mul(b, Num(k)))]

ScatterVoltages == {Zero, Num(1), Num(3)}

\* the worked example of the report: 12.5, 24.8, 37.2, 49.6, 62.0
ExampleVoltages ==
    <<Rat(125, 10), Rat(248, 10), Rat(372, 10), Rat(496, 10), Num(62)>>

FitInputs ==
    {LineVoltages(a, b, n) : a \in Intercepts, b \in Slopes, n \in 2..MaxPeaks}
       \cup (SeqsUpTo(ScatterVoltages, MaxPeaks) \ {<<>>})
       \cup {ExampleVoltages}

InitFit ==
    /\ InitPipe
    /\ \E vs \in FitInputs : fnIn = PeaksOf(vs)
    /\ fnOut = Null
    /\ fnPc = "ready"

\* a call of linearFit on the peaks
FitCall ==
    /\ fnPc = "ready"
    /\ \E res \in {linearFit(fnIn)} :
          /\ fnOut' = [threw |-> res.threw, fit |-> res.fit, uncertainty |-> Null]
          /\ fnPc' = IF res.threw THEN "done" ELSE "fitted"
    /\ UNCHANGED fnIn
    /\ UNCHANGED pipeVars

\* the call of calculateUncertainty that follows a fit
UncertaintyCall ==
    /\ fnPc = "fitted"
    /\ fnOut' = [fnOut EXCEPT
                   !.uncertainty = calculateUncertainty(<<>>, fnIn, fnOut.fit)]
    /\ fnPc' = "done"
    /\ UNCHANGED fnIn
    /\ UNCHANGED pipeVars

NextFit == FitCall \/ UncertaintyCall

SpecFit == InitFit /\ [][NextFit]_vars

\* the voltages are a + b * rank for the a and b the first two peaks fix
OnLine(peaks) ==
    /\ Len(peaks) >= 2
    /\ LET b == Sub(peaks[2].voltage, peaks[1].voltage)
           a == Sub(peaks[1].voltage, b)
       IN  \A k \in 1..Len(peaks) : peaks[k].voltage = Add(a, Mul(b, Num(k)))

LineSlope(peaks) == Sub(peaks[2].voltage, peaks[1].voltage)
LineIntercept(peaks) == Sub(peaks[1].voltage, LineSlope(peaks))

Fitted == fnPc \in {"fitted", "done"} /\ ~fnOut.threw

UncertaintyDone == fnPc = "done" /\ ~fnOut.threw

Collapsed(fit, unc) ==
    /\ unc.slopeError = Zero
    /\ unc.confidenceInterval.lower = fit.slope
    /\ unc.confidenceInterval.upper = fit.slope

Within(x, y, tol) == Le(Sub(x, y), tol) /\ Le(Sub(y, x), tol)

\* x rounded to three decimals, half up (x finite and non-negative)
Round3(x) == Rat((2000 * x[1] + x[2]) \div (2 * x[2]), 1000)

ExampleDone == fnPc = "done" /\ fnIn = PeaksOf(ExampleVoltages)

IntervalIsSlopePlusMinus(fit, unc) ==
    /\ unc.confidenceInterval.lower
          = Sub(fit.slope, Mul(Rat(2776, 1000), unc.slopeError))
    /\ unc.confidenceInterval.upper
          = Add(fit.slope, Mul(Rat(2776, 1000), unc.slopeError))

----------------------------------------------------------------------------
(* Peak detection, src/unnamed/part_000: fixed strict window *)

\* const windowSize = 5
windowSize == 5

\* the test of the loop body at 0-based index i: not (<=) any of the w
\* samples on either side, and above a tenth of the largest current
FixedIsPeak(data, w, i) ==
    /\ \A j \in 1..w : ~Le(data[i + 1].current, data[i + 1 - j].current)
    /\ \A j \in 1..w : ~Le(data[i + 1].current, data[i + 1 + j].current)
    /\ Gt(data[i + 1].current, Mul(Rat(1, 10), MathMax(Currents(data))))

RECURSIVE FixedFrom(_, _, _, _)
FixedFrom(data, w, i, acc) ==
    IF ~(i < Len(data) - w) THEN acc
    ELSE FixedFrom(data, w, i + 1,
            IF FixedIsPeak(data, w, i)
            THEN Append(acc, PeakAt(data, i)) ELSE acc)

\* findPeaks of part_000
findPeaksFixed(data) == FixedFrom(data, windowSize, windowSize, <<>>)

----------------------------------------------------------------------------
(* Peak detection, src/unnamed/part_001: Gaussian smoothing, centred
   difference, zero crossing, refinement, height and width gates.

   Math.exp is taken to four decimals.  A difference of two smoothed values
   that is exactly zero in real arithmetic is a sum of the same products
   taken in a different order in the code, and comes out of binary floating
   point as zero or as a rounding residue of either sign: the sign is the
   parameter tie of calculateDerivative. *)

\* Math.exp(-(i * i) / (2 * sigma * sigma)) at sigma = 2, for |i| <= 6
GaussWeight(i) ==
    CASE Abs(i) = 0 -> Rat(10000, 10000)
      [] Abs(i) = 1 -> Rat(8825, 10000)
      [] Abs(i) = 2 -> Rat(6065, 10000)
      [] Abs(i) = 3 -> Rat(3247, 10000)
      [] Abs(i) = 4 -> Rat(1353, 10000)
      [] Abs(i) = 5 -> Rat(439, 10000)
      [] Abs(i) = 6 -> Rat(111, 10000)

\* const radius = Math.ceil(3 * sigma), sigma an integer
Radius(sigma) == 3 * sigma

RECURSIVE SumFrom(_, _, _)
SumFrom(xs, i, acc) ==
    IF i > Len(xs) THEN acc ELSE SumFrom(xs, i + 1, Add(acc, xs[i]))

\* the kernel after kernel.forEach((val, i) => kernel[i] = val / sum), for
\* the one sigma findPeaks passes
Kernels ==
    [sigma \in {2} |->
        LET radius == Radius(sigma)
            raw == [k \in 1..(2 * radius + 1) |-> GaussWeight(k - 1 - radius)]
            sum == SumFrom(raw, 1, Zero)
        IN  [k \in 1..(2 * radius + 1) |-> Div(raw[k], sum)]]

Kernel(sigma) == Kernels[sigma]

\* the inner loop of gaussianSmooth at sample i from offset j on
RECURSIVE SmoothedVal(_, _, _, _, _, _)
SmoothedVal(data, kernel, radius, i, j, acc) ==
    IF j > radius THEN acc
    ELSE LET idx == i + j
         IN  SmoothedVal(data, kernel, radius, i, j + 1,
                IF idx >= 0 /\ idx < Len(data)
                THEN Add(acc, Mul(data[idx + 1].current, kernel[j + radius + 1]))
                ELSE acc)

gaussianSmooth(data, sigma) ==
    LET radius == Radius(sigma)
        kernel == Kernel(sigma)
    IN  [k \in 1..Len(data) |->
            [voltage |-> data[k].voltage,
             current |-> SmoothedVal(data, kernel, radius, k - 1, -radius, Zero)]]

\* the rounding residue a zero difference of smoothed values may carry
Residue(tie) == Rat(tie, 1000000)

\* derivative[k - 1] of the code is element k here and belongs to data[k]
calculateDerivative(data, tie) ==
    [k \in 1..(Len(data) - 2) |->
        LET dx == Sub(data[k + 2].voltage, data[k].voltage)
            exact == Sub(data[k + 2].current, data[k].current)
            dy == IF exact = Zero THEN Residue(tie) ELSE exact
        IN  [voltage |-> data[k + 1].voltage, value |-> Div(dy, dx)]]

\* while (left >= 0 && data[left].current > data[peakIndex].current)
RECURSIVE WalkLeft(_, _, _)
WalkLeft(data, peakIndex, left) ==
    IF left >= 0 /\ Gt(data[left + 1].current, data[peakIndex + 1].current)
    THEN WalkLeft(data, left, left - 1)
    ELSE peakIndex

\* while (right < data.length && data[right].current > data[peakIndex].current)
RECURSIVE WalkRight(_, _, _)
WalkRight(data, peakIndex, right) ==
    IF right < Len(data) /\ Gt(data[right + 1].current, data[peakIndex + 1].current)
    THEN WalkRight(data, right, right + 1)
    ELSE peakIndex

\* mutant: the refinement walks to the left only
RefineLeftOnly(data, i) == WalkLeft(data, i + 1, i)

\* the refined peakIndex of the crossing at derivative index i: right keeps
\* the value it was given before the walk to the left
Refine(data, i) ==
    WalkRight(data, WalkLeft(data, i + 1, i), i + 2)

RECURSIVE LeftWidth(_, _, _)
LeftWidth(data, peakIndex, leftWidth) ==
    IF leftWidth > 0
       /\ Gt(data[leftWidth + 1].current,
             Mul(Rat(1, 2), data[peakIndex + 1].current))
    THEN LeftWidth(data, peakIndex, leftWidth - 1)
    ELSE leftWidth

RECURSIVE RightWidth(_, _, _)
RightWidth(data, peakIndex, rightWidth) ==
    IF rightWidth < Len(data) - 1
       /\ Gt(data[rightWidth + 1].current,
             Mul(Rat(1, 2), data[peakIndex + 1].current))
    THEN RightWidth(data, peakIndex, rightWidth + 1)
    ELSE rightWidth

\* const minPeakWidth = 3
minPeakWidth == 3

\* derivative[i - 1].value > 0 && derivative[i].value <= 0
IsCrossing(derivative, i) ==
    /\ Gt(derivative[i].value, Zero)
    /\ Le(derivative[i + 1].value, Zero)

\* the derivative indices i of the loop at which the refinement runs
Crossings(derivative) ==
    {i \in 1..(Len(derivative) - 2) : IsCrossing(derivative, i)}

\* the loop over the derivative from index i on
RECURSIVE DerivativeFrom(_, _, _, _, _)
DerivativeFrom(data, derivative, minPeakHeight, i, acc) ==
    IF ~(i < Len(derivative) - 1) THEN acc
    ELSE IF ~IsCrossing(derivative, i)
    THEN DerivativeFrom(data, derivative, minPeakHeight, i + 1, acc)
    ELSE LET peakIndex == Refine(data, i)
             peakWidth == RightWidth(data, peakIndex, peakIndex)
                             - LeftWidth(data, peakIndex, peakIndex)
         IN  DerivativeFrom(data, derivative, minPeakHeight, i + 1,
                IF Ge(data[peakIndex + 1].current, minPeakHeight)
                   /\ peakWidth >= minPeakWidth
                THEN Append(acc, [voltage |-> data[peakIndex + 1].voltage,
                                  current |-> data[peakIndex + 1].current,
                                  peakIndex |-> peakIndex,
                                  width |-> peakWidth])
                ELSE acc)

\* step 3 of findPeaks: the peaks found from the derivative
DerivativePeaks(data, derivative) ==
    DerivativeFrom(data, derivative,
                   Mul(Rat(1, 10), MathMax(Currents(data))), 1, <<>>)

\* findPeaks of part_001
findPeaksDerivative(data, tie) ==
    DerivativePeaks(data, calculateDerivative(gaussianSmooth(data, 2), tie))

----------------------------------------------------------------------------
(* The indices the window scans read *)

InRange(data, i) == i >= 0 /\ i < Len(data)

MinOf(S) == CHOOSE x \in S : \A y \in S : x <= y

\* data[i].current <= data[i -+ j].current
FixedStops(x, y) == Le(x, y)

\* data[i].current < data[i -+ j].current * 0.95
RelaxedStops(x, y) == Lt(x, Mul(y, Rat(95, 100)))

\* the comparison at which an inner loop of the variant breaks out
Stops(variant, x, y) ==
    IF variant = "fixed" THEN FixedStops(x, y) ELSE RelaxedStops(x, y)

\* one inner loop at candidate i, towards dir = -1 or 1: data[i + dir * j] is
\* read for j = 1, 2, .. up to the j at which the loop breaks out, or up to
\* w; a read outside the array would throw and ends the loop too
SideReads(data, w, i, dir, variant) ==
    LET stop == {j \in 1..w :
                    \/ ~InRange(data, i + dir * j)
                    \/ Stops(variant, data[i + 1].current,
                             data[i + dir * j + 1].current)}
    IN  {i + dir * j : j \in 1..(IF stop = {} THEN w ELSE MinOf(stop))}

\* the left loop ran through: isPeak is still true when the right loop starts
LeftPasses(data, w, i, variant) ==
    \A j \in 1..w :
        /\ InRange(data, i - j)
        /\ ~Stops(variant, data[i + 1].current, data[i + 1 - j].current)

\* what one iteration of a window loop reads
WindowReadsAt(data, w, i, variant) ==
    {i} \cup SideReads(data, w, i, -1, variant)
        \cup (IF LeftPasses(data, w, i, variant)
              THEN SideReads(data, w, i, 1, variant) ELSE {})

FixedReads(data) ==
    UNION {WindowReadsAt(data, windowSize, i, "fixed") :
              i \in windowSize..(Len(data) - windowSize - 1)}

PrimaryReads(data) ==
    LET w == AdaptiveWindow(Len(data))
    IN  UNION {WindowReadsAt(data, w, i, "adaptive") : i \in w..(Len(data) - w - 1)}

\* the && chain of the fallback test reads data[i + 1] only when the
\* comparison with data[i - 1] held
BackupReads(data) ==
    UNION {{i, i - 1} \cup (IF Gt(data[i + 1].current, data[i].current)
                            THEN {i + 1} ELSE {}) :
              i \in 3..(Len(data) - 4)}

\* the fallback loop runs only when the primary loop found fewer than 2
AdaptiveReads(data) ==
    PrimaryReads(data)
       \cup (IF Len(PrimaryPeaks(data)) >= 2 THEN {} ELSE BackupReads(data))

----------------------------------------------------------------------------
(* findPeaks, all three variants, on bounded sample sequences *)

\* every sequence of currents over Levels up to this length is an input
MaxShort == 7

\* 2 is between 3% and 5% of 60, 57 is 95% of 60
Levels == {2, 57, 60}

ShortCurrents == UNION {[1..n -> Levels] : n \in 1..MaxShort}

\* lengths of the longer, shaped inputs
ShapeLengths == {8, 10, 11, 17}

Flat(n, c) == [i \in 1..n |-> c]

\* a + b, a + 2b, ..
Rising(n, a, b) == [i \in 1..n |-> a + b * i]

Reverse(xs) == [i \in 1..Len(xs) |-> xs[Len(xs) + 1 - i]]

\* rises by up to the top at 0-based index m, falls by down after it
Hill(n, m, top, up, down) ==
    [i \in 1..n |-> IF i - 1 <= m THEN top - up * (m - (i - 1))
                    ELSE top - down * ((i - 1) - m)]

\* hi at every period-th index from first on, lo elsewhere
Comb(n, period, first, lo, hi) ==
    [i \in 1..n |-> IF i - 1 >= first /\ (i - 1 - first) % period = 0
                    THEN hi ELSE lo]

\* a rising sawtooth, as a Franck-Hertz curve: each tooth climbs for
\* period - 2 samples and drops over 2
Teeth(n, period) ==
    [i \in 1..n |->
        LET k == (i - 1) \div period
            r == (i - 1) % period
        IN  10 * (k + 1) + (IF r <= period - 2 THEN 10 * r
                            ELSE 5 * (period - 2))]

ShapedCurrents ==
    UNION {   {Flat(n, c) : c \in {0, 5}}
         \cup {Rising(n, 59, 1), Reverse(Rising(n, 59, 1)),
               Rising(n, 0, 10), Reverse(Rising(n, 0, 10))}
         \cup {Hill(n, m, 100, 1, 1) : m \in 0..(n - 1)}
         \cup {Hill(n, m, 200, 10, 10) : m \in 0..(n - 1)}
         \cup {Hill(n, m, 200, 10, 3) : m \in 0..(n - 1)}
         \cup {Comb(n, p, f, 1, 50) : p \in {2, 4, 6}, f \in {0, 3, 5}}
         \cup {Comb(n, p, 5, 48, 50) : p \in {1, 6}}
         \cup {Teeth(n, p) : p \in {4, 6}}
          : n \in ShapeLengths}

\* three sequences on which two zero crossings refine to one sample, a
\* narrow spike, and two spikes of which the window pass accepts one
PickedCurrents ==
    {<<80, 10, 40, 60, 10, 5, 60, 80>>,
     <<50, 80, 5, 10, 40, 50, 20, 15, 80>>,
     <<60, 60, 15, 15, 20, 50, 60, 10, 0, 15>>,
     <<1, 2, 3, 4, 5, 6, 100, 6, 5, 4, 3, 2, 1>>,
     <<1, 1, 1, 50, 1, 100, 1, 1, 1>>}

\* samples at voltages 1, 2, ..
Samples(cs) == [i \in 1..Len(cs) |-> [voltage |-> Num(i), current |-> Num(cs[i])]]

\* the sample a row such as | 7 | . | leaves in the data
NaNAt(data, k) == [data EXCEPT ![k].current = NaN]

\* every voltage the same: no deduplication of repeated voltages
SameVoltage(data) == [i \in 1..Len(data) |-> [data[i] EXCEPT !.voltage = Num(1)]]

PeakInputs ==
       {Samples(cs) : cs \in ShortCurrents \cup ShapedCurrents \cup PickedCurrents}
  \cup {NaNAt(Samples(Hill(n, 5, 200, 10, 10)), 2) : n \in {7, 11}}
  \cup {SameVoltage(Samples(Hill(n, 5, 200, 10, 10))) : n \in {7, 11}}

\* the sign a zero difference of smoothed values may come out with
Ties == {-1, 0, 1}

InitPeaks ==
    /\ InitPipe
    /\ fnIn \in {[data |-> d] : d \in PeakInputs}
    /\ fnOut = Null
    /\ fnPc = "ready"

\* findPeaks of part_000 on the input
FixedCall ==
    /\ fnPc = "ready"
    /\ \E peaks \in {findPeaksFixed(fnIn.data)} :
          fnOut' = [variant |-> "fixed",
                    peaks |-> peaks,
                    primary |-> peaks,
                    backup |-> <<>>,
                    refined |-> <<>>,
                    reads |-> FixedReads(fnIn.data)]
    /\ fnPc' = "done"
    /\ UNCHANGED <<fnIn, pipeVars>>

\* findPeaks of script.js on the input, and what its two passes found
AdaptiveCall ==
    /\ fnPc = "ready"
    /\ \E primary \in {PrimaryPeaks(fnIn.data)} :
          fnOut' = [variant |-> "adaptive",
                    peaks |-> findPeaks(fnIn.data),
                    primary |-> primary,
                    backup |-> IF Len(primary) >= 2 THEN <<>>
                               ELSE BackupPeaks(fnIn.data),
                    refined |-> <<>>,
                    reads |-> AdaptiveReads(fnIn.data)]
    /\ fnPc' = "done"
    /\ UNCHANGED <<fnIn, pipeVars>>

\* the refined index of every crossing, in loop order
RefinedOf(data, derivative) ==
    [i \in Crossings(derivative) |-> Refine(data, i)]

\* findPeaks of part_001 on the input, and the index each crossing refined to
DerivativeCall(tie) ==
    /\ fnPc = "ready"
    /\ \E derivative \in {calculateDerivative(gaussianSmooth(fnIn.data, 2), tie)} :
       \E peaks \in {DerivativePeaks(fnIn.data, derivative)} :
          fnOut' = [variant |-> "derivative",
                    peaks |-> peaks,
                    primary |-> peaks,
                    backup |-> <<>>,
                    refined |-> RefinedOf(fnIn.data, derivative),
                    reads |-> {}]
    /\ fnPc' = "done"
    /\ UNCHANGED <<fnIn, pipeVars>>

NextPeaks ==
    \/ FixedCall
    \/ AdaptiveCall
    \/ \E tie \in Ties : DerivativeCall(tie)

SpecPeaks == InitPeaks /\ [][NextPeaks]_vars

----------------------------------------------------------------------------
(* Properties of findPeaks *)

PeaksDone == fnPc = "done"

\* the number of samples of the input
SampleCount == Len(fnIn.data)

\* the current of the sample at 0-based index i
Cur(i) == fnIn.data[i + 1].current

MaxCur == MathMax(Currents(fnIn.data))

Indices(peaks) == [k \in 1..Len(peaks) |-> peaks[k].peakIndex]

IndexSet(peaks) == {peaks[k].peakIndex : k \in 1..Len(peaks)}

Clamp(x, lo, hi) == IF x < lo THEN lo ELSE IF x > hi THEN hi ELSE x

\* the margin the claims give each variant: the window size, and for the
\* derivative variant the radius of the smoothing kernel
MarginOf(variant) ==
    CASE variant = "fixed" -> 5
      [] variant = "adaptive" -> Clamp(SampleCount \div 20, 3, 10)
      [] variant = "derivative" -> 6

\* strictly increasing up to a positive maximum at m, strictly decreasing after
UnimodalAt(m) ==
    /\ \A i \in 0..(m - 1) : Lt(Cur(i), Cur(i + 1))
    /\ \A i \in m..(SampleCount - 2) : Gt(Cur(i), Cur(i + 1))
    /\ Gt(Cur(m), Zero)

\* C12 (as claimed): on a unimodal sequence whose maximum m is a margin away
\* from both ends, each variant returns exactly one peak, with peakIndex m
C12_UnimodalOnePeak ==
    PeaksDone =>
        \A m \in MarginOf(fnOut.variant)..(SampleCount - MarginOf(fnOut.variant) - 1) :
            UnimodalAt(m) => Indices(fnOut.peaks) = <<m>>

StrictlyMonotonic ==
    \/ \A i \in 0..(SampleCount - 2) : Lt(Cur(i), Cur(i + 1))
    \/ \A i \in 0..(SampleCount - 2) : Gt(Cur(i), Cur(i + 1))

\* C13 (as claimed): on a strictly monotonic sequence the primary pass of
\* each variant returns no peak
C13_MonotonicNoPeak ==
    (PeaksDone /\ StrictlyMonotonic) => fnOut.primary = <<>>

IsFlat == \A i \in 0..(SampleCount - 1) : Cur(i) = Cur(0)

\* C14 (as claimed): on a flat sequence, of any length and value, each
\* variant returns the empty list
C14_FlatNoPeak ==
    (PeaksDone /\ IsFlat) => fnOut.peaks = <<>>

\* the margin of the pass whose list the window variant returned
ReturnedMargin ==
    IF fnOut.variant = "adaptive" /\ Len(fnOut.primary) < 2 THEN 3
    ELSE MarginOf(fnOut.variant)

\* C15: in the window variants fewer than 2 * windowSize + 1 samples give
\* the empty list, every index read lies inside the sequence, and every
\* returned peakIndex is at least the margin of its pass away from both ends
C15_WindowStaysInside ==
    (PeaksDone /\ fnOut.variant \in {"fixed", "adaptive"}) =>
        /\ SampleCount < 2 * MarginOf(fnOut.variant) + 1 => fnOut.peaks = <<>>
        /\ fnOut.reads \subseteq 0..(SampleCount - 1)
        /\ \A i \in IndexSet(fnOut.peaks) :
              ReturnedMargin <= i /\ i < SampleCount - ReturnedMargin

\* one sample short of a full fixed window around a maximum no peak is
\* returned, and the scan read nothing
C15_Witness ==
    /\ PeaksDone
    /\ fnOut.variant = "fixed"
    /\ SampleCount = 2 * MarginOf("fixed")
    /\ UnimodalAt(5)
    /\ fnOut.peaks = <<>>
    /\ fnOut.reads = {}

\* C16 (as claimed): in every variant the returned list is in strictly
\* increasing peakIndex order, so no index is reported twice
C16_StrictlyIncreasingIndex ==
    PeaksDone =>
        \A k \in 1..(Len(fnOut.peaks) - 1) :
            fnOut.peaks[k].peakIndex < fnOut.peaks[k + 1].peakIndex

\* the records of the samples at the indices S, in index order
RECURSIVE PeaksAt(_, _)
PeaksAt(data, S) ==
    IF S = {} THEN <<>>
    ELSE <<PeakAt(data, MinOf(S))>> \o PeaksAt(data, S \ {MinOf(S)})

\* the fallback candidates as the claim words them
FallbackCandidates ==
    {i \in 3..(SampleCount - 4) :
        /\ Gt(Cur(i), Cur(i - 1))
        /\ Gt(Cur(i), Cur(i + 1))
        /\ Gt(Cur(i), Mul(Rat(3, 100), MaxCur))}

\* C17: the adaptive variant returns the primary list when it holds at least
\* 2 peaks, and otherwise the fallback candidates in index order; it returns
\* fewer than 2 peaks only if both passes found fewer than 2
C17_FallbackPolicy ==
    (PeaksDone /\ fnOut.variant = "adaptive") =>
        /\ Len(fnOut.primary) >= 2 => fnOut.peaks = fnOut.primary
        /\ Len(fnOut.primary) < 2
              => fnOut.peaks = PeaksAt(fnIn.data, FallbackCandidates)
        /\ Len(fnOut.peaks) < 2
              => /\ Len(fnOut.primary) < 2
                 /\ Cardinality(FallbackCandidates) < 2

\* the primary pass found one peak and the fallback pass returned two
C17_Witness ==
    /\ PeaksDone
    /\ fnOut.variant = "adaptive"
    /\ Len(fnOut.primary) = 1
    /\ Len(fnOut.peaks) = 2
    /\ fnOut.peaks # fnOut.primary

\* the indices of the fixed primary pass as the claim words them
FixedCandidates ==
    {i \in 5..(SampleCount - 6) :
        /\ \A j \in 1..5 : Gt(Cur(i), Cur(i - j)) /\ Gt(Cur(i), Cur(i + j))
        /\ Gt(Cur(i), Mul(Rat(1, 10), MaxCur))}

\* the indices of the relaxed primary pass as the claim words them
RelaxedCandidates ==
    LET w == Clamp(SampleCount \div 20, 3, 10)
    IN  {i \in w..(SampleCount - w - 1) :
            /\ \A j \in 1..w :
                  /\ Ge(Cur(i), Mul(Rat(95, 100), Cur(i - j)))
                  /\ Ge(Cur(i), Mul(Rat(95, 100), Cur(i + j)))
            /\ Gt(Cur(i), Mul(Rat(5, 100), MaxCur))}

\* sample counts on both sides of every step of the adaptive window size
WindowLengths == {0, 1, 59, 60, 79, 80, 99, 100, 199, 200, 219, 220, 1000}

\* C19: the primary pass of a window variant reports exactly the indices
\* inside the margin that clear the noise floor and dominate all 2w
\* neighbours, strictly in the fixed variant and within 5% in the relaxed
\* one, whose window size is floor(N / 20) clamped to 3..10
C19_PrimaryPassExact ==
    /\ \A n \in WindowLengths : AdaptiveWindow(n) = Clamp(n \div 20, 3, 10)
    /\ (PeaksDone /\ fnOut.variant = "fixed")
          => /\ IndexSet(fnOut.primary) = FixedCandidates
             /\ Len(fnOut.primary) = Cardinality(FixedCandidates)
    /\ (PeaksDone /\ fnOut.variant = "adaptive")
          => /\ IndexSet(fnOut.primary) = RelaxedCandidates
             /\ Len(fnOut.primary) = Cardinality(RelaxedCandidates)

\* the relaxed pass reported a sample that a neighbour in its window exceeds,
\* next to a sample inside the margin that it did not report
C19_Witness ==
    /\ PeaksDone
    /\ fnOut.variant = "adaptive"
    /\ \E i \in IndexSet(fnOut.primary) : \E j \in 1..3 : Gt(Cur(i + j), Cur(i))
    /\ \E i \in 3..(SampleCount - 4) : i \notin IndexSet(fnOut.primary)

\* the 0-based indices the refinement ended at
RefinedSet == {fnOut.refined[i] : i \in DOMAIN fnOut.refined}

\* C20: in the derivative variant every refined index is a sample index at
\* which neither existing neighbour has a strictly greater current, and
\* every recorded peak carries the voltage and current of the sample at its
\* refined index
C20_RefinedIsLocalMax ==
    (PeaksDone /\ fnOut.variant = "derivative") =>
        /\ \A p \in RefinedSet :
              /\ p \in 0..(SampleCount - 1)
              /\ p > 0 => ~Gt(Cur(p - 1), Cur(p))
              /\ p < SampleCount - 1 => ~Gt(Cur(p + 1), Cur(p))
        /\ \A k \in 1..Len(fnOut.peaks) :
              /\ fnOut.peaks[k].peakIndex \in RefinedSet
              /\ fnOut.peaks[k].voltage = fnIn.data[fnOut.peaks[k].peakIndex + 1].voltage
              /\ fnOut.peaks[k].current = Cur(fnOut.peaks[k].peakIndex)

\* a crossing was refined away from where the derivative changed sign, once
\* to the left and once to the right, and a peak was recorded
C20_Witness ==
    /\ PeaksDone
    /\ fnOut.variant = "derivative"
    /\ \E i \in DOMAIN fnOut.refined : fnOut.refined[i] < i + 1
    /\ \E i \in DOMAIN fnOut.refined : fnOut.refined[i] > i + 1
    /\ fnOut.peaks # <<>>

----------------------------------------------------------------------------
(* The pipeline run twice on one text, after arbitrary earlier runs *)

\* at most this many runs on other files come before the two runs compared
MaxPrior == 2

\* what a run leaves behind: the samples and the result slot
Left(out) == [samples |-> out.rawData, record |-> out.processedData]

InitTwice ==
    /\ InitPipe
    /\ fnIn \in {[file |-> f] : f \in FileNames}
    /\ fnOut = Null
    /\ fnPc = "ready"

\* the globals and the page after the onload callback returned out
Ran(out) ==
    /\ rawData' = out.rawData
    /\ processedData' = out.processedData
    /\ chart' = out.chart
    /\ resultsShown' = out.resultsShown
    /\ processShown' = out.processShown
    /\ nextId' = nextId + 1
    /\ log' = log \o Tag(nextId + 1, out.steps)
    /\ UNCHANGED readers

\* an earlier upload of file g is read and its callback runs
PriorRun(g) ==
    /\ fnPc = "ready"
    /\ nextId < MaxPrior
    /\ \E out \in {onload(FileText(g))} : Ran(out)
    /\ UNCHANGED fnVars

\* the text under study is read and its callback runs
FirstRun ==
    /\ fnPc = "ready"
    /\ \E out \in {onload(FileText(fnIn.file))} :
          /\ Ran(out)
          /\ fnOut' = [before |-> [samples |-> rawData, record |-> processedData],
                       first |-> Left(out),
                       second |-> Null]
    /\ fnPc' = "once"
    /\ UNCHANGED fnIn

\* the same text is read again and its callback runs
SecondRun ==
    /\ fnPc = "once"
    /\ \E out \in {onload(FileText(fnIn.file))} :
          /\ Ran(out)
          /\ fnOut' = [fnOut EXCEPT !.second = Left(out)]
    /\ fnPc' = "twice"
    /\ UNCHANGED fnIn

NextTwice ==
    \/ \E g \in FileNames : PriorRun(g)
    \/ FirstRun
    \/ SecondRun

SpecTwice == InitTwice /\ [][NextTwice]_vars

\* C18: two runs in succession on one text leave the same samples, peaks,
\* fit and uncertainty, and when the run succeeds these are the ones computed
\* from the text alone, whatever the earlier runs left in rawData and
\* processedData
C18_TwiceSame ==
    fnPc = "twice" =>
        /\ fnOut.first = fnOut.second
        /\ RunSucceeds(FileText(fnIn.file))
              => /\ fnOut.first.record = RecordOf(FileText(fnIn.file))
                 /\ fnOut.first.samples = parseData(FileText(fnIn.file)).data

\* both runs succeeded on a slot that held the result of another file
C18_Witness ==
    /\ fnPc = "twice"
    /\ fnOut.before.record # EmptySlot
    /\ fnOut.first.record # EmptySlot
    /\ fnOut.first.record # fnOut.before.record
    /\ fnOut.first.record.raw = fnOut.first.samples
    /\ fnOut.before.samples # fnOut.before.record.raw

====
